---- MODULE Spec2Model ----
(***************************************************************************)
(* VOS container directory (vos/vos_container.c): the durable container    *)
(* index of one pool, the record-lifecycle callbacks of its tree class,    *)
(* the DRAM cache of open container handles, the container lifecycle calls *)
(* and the container-uuid iterator.                                        *)
(*                                                                         *)
(* Spec     : every public call is one atomic action (sequential callers). *)
(* SpecConc : callers are threads; a call is a sequence of steps, one per  *)
(*            access to the shared handle cache or the durable index.      *)
(* SpecWide : as Spec, on a pool with room for MaxWide containers.         *)
(* SpecIter : the iterator calls on a fixed directory of up to MaxKeys     *)
(*            containers.                                                  *)
(***************************************************************************)
EXTENDS Integers, FiniteSets, Sequences, TLC

\* ------------------------------------------------------------------ bounds
MaxIds == 1
MaxRef == 2
MaxThreads == 2
MaxWide == 2
MaxKeys == 3

\* TMMID_IS_NULL / NULL pointer / invalid handle cookie
NULL == 0

Ids     == 1..MaxIds
Addr    == 1..(2 * MaxIds)
HdlAddr == 1..(MaxIds + MaxThreads)
Threads == 1..MaxThreads

VARIABLES
    heap,     \* durable pool memory: Addr -> object
    ci,       \* container index vp_cont_ith: uuid -> rec_mmid (NULL: no key)
    hdls,     \* DRAM: HdlAddr -> struct vc_hdl
    cohash,   \* uuid hash of open handles: uuid -> HdlAddr (NULL: none)
    iter,     \* the container iterator (struct vos_co_iter)
    vp_ref,   \* reference count of the pool
    last,     \* the call that returned last, and what it returned
    removed,  \* history: how a uuid last left the index ("no": not since its
              \* last successful create)
    pc,       \* SpecConc: position of each thread
    loc,      \* SpecConc: locals of each thread's call
    held      \* history: per uuid, n: successful opens not yet closed;
              \* drained: a close brought n back to zero; coh: the handle
              \* the last successful open returned

vars == <<heap, ci, hdls, cohash, iter, vp_ref, last, removed, pc, loc, held>>

\* ------------------------------------------------------------ return codes
OK == "OK"

\* ---------------------------------------------------------- durable memory
NoObj == [kind |-> "free", vc_id |-> 0, vc_obtable |-> NULL, st |-> "none",
          vc_info |-> "none"]

\* struct vos_container: vc_id, vc_obtable; vc_info is zeroed by the allocator
\* and never written
CoObj(id, ob) == [kind |-> "co", vc_id |-> id, vc_obtable |-> ob, st |-> "none",
                  vc_info |-> "zero"]

\* struct vos_object_index: zeroed by the allocator, made live by vos_oi_create,
\* destroyed by vos_oi_destroy
OiObj(s) == [kind |-> "oi", vc_id |-> 0, vc_obtable |-> NULL, st |-> s,
             vc_info |-> "none"]

MinOf(S) == CHOOSE x \in S : \A y \in S : x <= y

FreeAddrs(h) == {a \in DOMAIN h : h[a].kind = "free"}

\* umem_znew_typed: a zeroed object at a free address, or a null id
umem_znew_typed(h, obj, fail) ==
    IF fail \/ FreeAddrs(h) = {}
    THEN [mmid |-> NULL, heap |-> h]
    ELSE LET a == MinOf(FreeAddrs(h))
         IN  [mmid |-> a, heap |-> [h EXCEPT ![a] = obj]]

umem_free_typed(h, a) == [h EXCEPT ![a] = NoObj]

\* umem_tx_errno: the error an aborted transaction returns
umem_tx_errno(rc) == IF rc = OK THEN "DER_MISC" ELSE rc

\* vos_oi_create: initialises the nested index in place, or fails
vos_oi_create(h, a, fail) ==
    IF fail THEN [rc |-> "DER_NOMEM", heap |-> h]
    ELSE [rc |-> OK, heap |-> [h EXCEPT ![a] = OiObj("live")]]

\* vos_oi_destroy: destroys the nested index in place, or fails
vos_oi_destroy(h, a, fail) ==
    IF fail THEN [rc |-> "DER_IO", heap |-> h]
    ELSE [rc |-> OK, heap |-> [h EXCEPT ![a] = OiObj("destroyed")]]

\* --------------------------------------------- record lifecycle callbacks
\* vc_rec_free: rec_mmid null -> -DER_NONEXIST; else free the object index
\* storage (if any) and the container record.  No nested-index finalizer call
\* (oid: the invocations of vos_oi_destroy, none here).
vc_rec_free(h, rec_mmid) ==
    IF rec_mmid = NULL
    THEN [rc |-> "DER_NONEXIST", heap |-> h, oid |-> 0]
    ELSE LET ob == h[rec_mmid].vc_obtable
             h1 == IF ob # NULL THEN umem_free_typed(h, ob) ELSE h
         IN  [rc |-> OK, heap |-> umem_free_typed(h1, rec_mmid), oid |-> 0]

\* vc_rec_alloc: rec.rec_mmid is only assigned on success (line 131), so the
\* cleanup at exit hands vc_rec_free the rec_mmid of the tree's fresh record,
\* which is null: nothing is freed there, the transaction's abort frees it.
\* oic: the invocations of vos_oi_create; kept: the objects this call allocated
\* that are still allocated when it returns an error.
vc_rec_alloc(h, id, f) ==
    LET a1 == umem_znew_typed(h, CoObj(id, NULL), f = "co_nomem")
    IN  IF a1.mmid = NULL
        THEN [rc |-> "DER_NOMEM", heap |-> h, rec_mmid |-> NULL, oic |-> 0,
              kept |-> 0]
        ELSE
        LET a2 == umem_znew_typed(a1.heap, OiObj("zero"), f = "oi_nomem")
            h2 == [a2.heap EXCEPT ![a1.mmid].vc_obtable = a2.mmid]
        IN  IF a2.mmid = NULL
            THEN LET h3 == vc_rec_free(h2, NULL).heap
                 IN  [rc |-> "DER_NOMEM", heap |-> h3, rec_mmid |-> NULL,
                      oic |-> 0,
                      kept |-> Cardinality(FreeAddrs(h) \ FreeAddrs(h3))]
            ELSE
            LET c == vos_oi_create(h2, a2.mmid, f = "oi_create")
            IN  IF c.rc # OK
                THEN LET h3 == vc_rec_free(c.heap, NULL).heap
                     IN  [rc |-> c.rc, heap |-> h3, rec_mmid |-> NULL,
                          oic |-> 1,
                          kept |-> Cardinality(FreeAddrs(h) \ FreeAddrs(h3))]
                ELSE [rc |-> OK, heap |-> c.heap, rec_mmid |-> a1.mmid,
                      oic |-> 1, kept |-> 0]

\* ------------------------------------------------- the ordered map (btree)
\* d is the durable state [heap, ci].
dbtree_lookup(d, id) == IF d.ci[id] = NULL THEN "DER_NONEXIST" ELSE OK

\* dbtree_update: existing key -> vc_rec_update (nothing to do); new key ->
\* vc_rec_alloc and link the record under the key.
dbtree_update(d, id, f) ==
    IF f = "btr" THEN [rc |-> "DER_IO", d |-> d, oic |-> 0, kept |-> 0]
    ELSE IF d.ci[id] # NULL THEN [rc |-> OK, d |-> d, oic |-> 0, kept |-> 0]
    ELSE LET r == vc_rec_alloc(d.heap, id, f)
         IN  IF r.rc # OK
             THEN [rc |-> r.rc, d |-> [d EXCEPT !.heap = r.heap],
                   oic |-> r.oic, kept |-> r.kept]
             ELSE [rc |-> OK,
                   d |-> [heap |-> r.heap, ci |-> [d.ci EXCEPT ![id] = r.rec_mmid]],
                   oic |-> r.oic, kept |-> r.kept]

\* dbtree_delete: unlink the key and vc_rec_free its record.
dbtree_delete(d, id, f) ==
    IF f = "btr" THEN [rc |-> "DER_IO", d |-> d, oid |-> 0]
    ELSE IF d.ci[id] = NULL THEN [rc |-> "DER_NONEXIST", d |-> d, oid |-> 0]
    ELSE LET r == vc_rec_free(d.heap, d.ci[id])
         IN  [rc |-> r.rc,
              d |-> [heap |-> r.heap, ci |-> [d.ci EXCEPT ![id] = NULL]],
              oid |-> r.oid]

vos_co_tree_lookup(d, id) == dbtree_lookup(d, id)

Durable == [heap |-> heap, ci |-> ci]

\* ------------------------------------------------------- the handle cache
\* struct vc_hdl in DRAM; ul_ref is the reference count of its uuid-hash link
NoHdl == [live |-> FALSE, vc_id |-> 0, vc_co |-> NULL, vc_obj_table |-> NULL,
          ul_ref |-> 0]

FreeHdls(hd) == {a \in DOMAIN hd : ~hd[a].live}

\* D_ALLOC_PTR(co_hdl)
AllocHdl(hd, fail) ==
    IF fail \/ FreeHdls(hd) = {} THEN NULL ELSE MinOf(FreeHdls(hd))

\* c is the cache state [hdls, cohash].
\* lookup(id): a hit returns the handle with one more reference
vos_co_lookup_handle(c, id) ==
    IF c.cohash[id] = NULL
    THEN [rc |-> "DER_NONEXIST", co_hdl |-> NULL, c |-> c]
    ELSE LET h == c.cohash[id]
         IN  [rc |-> OK, co_hdl |-> h,
              c |-> [c EXCEPT !.hdls[h].ul_ref = @ + 1]]

\* putref(handle): gives one reference back
vos_co_putref_handle(c, h) ==
    IF h = NULL THEN c ELSE [c EXCEPT !.hdls[h].ul_ref = @ - 1]

\* insert(handle, id): registers a new handle holding one reference; fails if
\* the uuid already has one
vos_co_insert_handle(c, h, id, fail) ==
    IF fail THEN [rc |-> "DER_NOMEM", coh |-> NULL, c |-> c]
    ELSE IF c.cohash[id] # NULL THEN [rc |-> "DER_EXIST", coh |-> NULL, c |-> c]
    ELSE [rc |-> OK, coh |-> h,
          c |-> [hdls   |-> [c.hdls EXCEPT ![h].ul_ref = 1],
                 cohash |-> [c.cohash EXCEPT ![id] = h]]]

\* vos_co_uhash_free: tears the handle down and frees it
vos_co_uhash_free(c, h) == [c EXCEPT !.hdls[h] = NoHdl]

\* release(handle): drops one reference; at zero the handle leaves the cache
\* and is torn down
vos_co_release_handle(c, h) ==
    IF c.hdls[h].ul_ref > 1
    THEN [c EXCEPT !.hdls[h].ul_ref = @ - 1]
    ELSE LET id == c.hdls[h].vc_id
         IN  [hdls   |-> [c.hdls EXCEPT ![h] = NoHdl],
              cohash |-> IF c.cohash[id] = h
                         THEN [c.cohash EXCEPT ![id] = NULL] ELSE c.cohash]

Cache == [hdls |-> hdls, cohash |-> cohash]

\* ------------------------------------------------------ transaction bodies
\* Faulty variant: the failed dbtree_update is returned without
\* pmemobj_tx_abort, so the body's writes are committed.
vos_co_create_tx_noabort(d, id, f) ==
    LET r == dbtree_update(d, id, f)
    IN  [rc |-> r.rc, d |-> r.d, aborted |-> FALSE, oic |-> r.oic,
         kept |-> r.kept]

\* vos_co_create, TX_BEGIN .. TX_END: a failed dbtree_update aborts, and the
\* abort discards every durable write of the body.  aborted: the body called
\* pmemobj_tx_abort.
vos_co_create_tx(d, id, f) ==
    LET r == dbtree_update(d, id, f)
    IN  IF r.rc # OK
        THEN [rc |-> umem_tx_errno(r.rc), d |-> d, aborted |-> TRUE,
              oic |-> r.oic, kept |-> r.kept]
        ELSE [rc |-> OK, d |-> r.d, aborted |-> FALSE, oic |-> r.oic,
              kept |-> r.kept]

\* Faulty variant: the body destroys the object index and never calls dbtree_delete.
vos_co_destroy_tx_nodelete(d, id, vc_co, f) ==
    LET vc_oi == d.heap[vc_co].vc_obtable
        o == vos_oi_destroy(d.heap, vc_oi, f = "oi_destroy")
    IN  IF o.rc # OK
        THEN [rc |-> umem_tx_errno(o.rc), d |-> d, aborted |-> TRUE, oid |-> 1]
        ELSE [rc |-> OK, d |-> [d EXCEPT !.heap = o.heap], aborted |-> FALSE,
              oid |-> 1]

\* vos_co_destroy, TX_BEGIN .. TX_END: a failed vos_oi_destroy aborts; the
\* result of dbtree_delete is returned and the body runs to its end (commit).
vos_co_destroy_tx(d, id, vc_co, f) ==
    LET vc_oi == d.heap[vc_co].vc_obtable
        o == vos_oi_destroy(d.heap, vc_oi, f = "oi_destroy")
    IN  IF o.rc # OK
        THEN [rc |-> umem_tx_errno(o.rc), d |-> d, aborted |-> TRUE, oid |-> 1]
        ELSE LET r == dbtree_delete([d EXCEPT !.heap = o.heap], id, f)
             IN  [rc |-> r.rc, d |-> r.d, aborted |-> FALSE, oid |-> 1 + r.oid]

\* Faulty variant: Busy is returned without vos_co_putref_handle.
vos_co_destroy_busy_noput(c, co_hdl) == c

\* vos_co_destroy, handle-cache gate: any lookup result but -DER_NONEXIST is
\* Busy, after the reference is put back
vos_co_destroy_busy(c, co_hdl) == vos_co_putref_handle(c, co_hdl)

\* vos_co_open, construction of the handle from the fetched record view
NewHdl(d, id) ==
    [live |-> TRUE, vc_id |-> id, vc_co |-> d.ci[id],
     vc_obj_table |-> d.heap[d.ci[id]].vc_obtable, ul_ref |-> 0]

\* Faulty variant: the handle built by a failed open is not freed.
vos_co_open_exit_nofree(c, rc, co_hdl) == c

\* vos_co_open, exit label: a handle built by a failed open is freed
vos_co_open_exit(c, rc, co_hdl) ==
    IF rc # OK /\ co_hdl # NULL THEN vos_co_uhash_free(c, co_hdl) ELSE c

\* ------------------------------------------------------------------- Init
NoIter == [st |-> "none", pos |-> 0]
NoCall == [op |-> "none", id |-> 0, rc |-> OK, coh |-> NULL, tx |-> FALSE,
           hit |-> FALSE, f |-> "none", anchor |-> NULL, tl |-> 0, oic |-> 0,
           oid |-> 0, kept |-> 0, putnull |-> FALSE, vc_co |-> NULL,
           info |-> "none", aborted |-> FALSE]
NoHeld == [n |-> 0, drained |-> FALSE, coh |-> NULL]
NoLoc  == [op |-> "none", id |-> 0, rc |-> OK, co_hdl |-> NULL, coh |-> NULL,
           vc_co |-> NULL]

Init ==
    /\ heap = [a \in Addr |-> NoObj]
    /\ ci = [i \in Ids |-> NULL]
    /\ hdls = [a \in HdlAddr |-> NoHdl]
    /\ cohash = [i \in Ids |-> NULL]
    /\ iter = NoIter
    /\ vp_ref = 1
    /\ last = NoCall
    /\ removed = [i \in Ids |-> "no"]
    /\ pc = [t \in Threads |-> "idle"]
    /\ loc = [t \in Threads |-> NoLoc]
    /\ held = [i \in Ids |-> NoHeld]

\* op(id) returned rc (and the handle coh); tx: it began a transaction; hit: its
\* handle-cache lookup found a handle; f: the failure injected into the call.
\* What the call did on the way, set by the calls concerned: anchor: the anchor
\* an iterator fetch returned; tl: lookups in the durable index; oic, oid:
\* invocations of vos_oi_create and of vos_oi_destroy; kept: objects allocated
\* by a failed vc_rec_alloc and still allocated when it returned; putnull:
\* vos_co_putref_handle was passed a null handle; vc_co, info: the record a
\* query read and the vc_info it copied out; aborted: its transaction was
\* aborted
Ret(op, id, rc, coh, tx, hit, f) ==
    [op |-> op, id |-> id, rc |-> rc, coh |-> coh, tx |-> tx, hit |-> hit,
     f |-> f, anchor |-> NULL, tl |-> 0, oic |-> 0, oid |-> 0, kept |-> 0,
     putnull |-> FALSE, vc_co |-> NULL, info |-> "none", aborted |-> FALSE]

\* the callers' references to the handle of uuid id after an open / a close
HeldAfterOpen(id, rc, coh) ==
    IF rc = OK
    THEN [held EXCEPT ![id] = [n |-> @.n + 1, drained |-> FALSE, coh |-> coh]]
    ELSE held

HeldAfterClose(id) ==
    [held EXCEPT ![id] = [n |-> @.n - 1, drained |-> @.n = 1, coh |-> @.coh]]

\* -------------------------------------------- lifecycle calls, sequential
CreateFaults == {"none", "poh", "co_nomem", "oi_nomem", "oi_create", "btr"}

\* Faulty variant: no existence check before the transaction.
vos_co_create_nocheck(id, f) ==
    /\ UNCHANGED <<hdls, cohash, iter, vp_ref, pc, loc, held>>
    /\ IF f = "poh"
       THEN /\ last' = Ret("create", id, "DER_INVAL", NULL, FALSE, FALSE, f)
            /\ UNCHANGED <<heap, ci, removed>>
       ELSE \E r \in {vos_co_create_tx(Durable, id, f)} :
                /\ heap' = r.d.heap
                /\ ci' = r.d.ci
                /\ removed' = IF r.rc = OK
                              THEN [removed EXCEPT ![id] = "no"]
                              ELSE removed
                /\ last' = [Ret("create", id, r.rc, NULL, TRUE, FALSE, f)
                              EXCEPT !.aborted = r.aborted, !.oic = r.oic,
                                     !.kept = r.kept]

vos_co_create(id, f) ==
    /\ UNCHANGED <<hdls, cohash, iter, vp_ref, pc, loc, held>>
    /\ IF f = "poh"
       THEN /\ last' = Ret("create", id, "DER_INVAL", NULL, FALSE, FALSE, f)
            /\ UNCHANGED <<heap, ci, removed>>
       ELSE IF vos_co_tree_lookup(Durable, id) = OK
       THEN /\ last' = Ret("create", id, "DER_EXIST", NULL, FALSE, FALSE, f)
            /\ UNCHANGED <<heap, ci, removed>>
       ELSE \E r \in {vos_co_create_tx(Durable, id, f)} :
                /\ heap' = r.d.heap
                /\ ci' = r.d.ci
                /\ removed' = IF r.rc = OK
                              THEN [removed EXCEPT ![id] = "no"]
                              ELSE removed
                /\ last' = [Ret("create", id, r.rc, NULL, TRUE, FALSE, f)
                              EXCEPT !.aborted = r.aborted, !.oic = r.oic,
                                     !.kept = r.kept]

\* "lookup": vos_co_lookup_handle finds no handle and fails with an error that
\* is not -DER_NONEXIST
DestroyFaults == {"none", "poh", "oi_destroy", "btr", "lookup"}

vos_co_destroy(id, f) ==
    /\ UNCHANGED <<iter, vp_ref, pc, loc, held>>
    /\ IF f = "poh"
       THEN /\ last' = Ret("destroy", id, "DER_INVAL", NULL, FALSE, FALSE, f)
            /\ UNCHANGED <<heap, ci, hdls, cohash, removed>>
       ELSE
       LET l == IF f = "lookup"
                THEN [rc |-> "DER_NOMEM", co_hdl |-> NULL, c |-> Cache]
                ELSE vos_co_lookup_handle(Cache, id)
       IN  IF l.rc # "DER_NONEXIST"
           THEN LET c == vos_co_destroy_busy(l.c, l.co_hdl)
                IN  /\ f = "lookup" => cohash[id] = NULL
                    /\ hdls' = c.hdls
                    /\ cohash' = c.cohash
                    /\ last' = [Ret("destroy", id, "DER_BUSY", NULL, FALSE,
                                    l.rc = OK, f)
                                EXCEPT !.putnull = (l.co_hdl = NULL)]
                    /\ UNCHANGED <<heap, ci, removed>>
           ELSE IF vos_co_tree_lookup(Durable, id) # OK
           THEN /\ last' = Ret("destroy", id, "DER_NONEXIST", NULL, FALSE, FALSE, f)
                /\ UNCHANGED <<heap, ci, hdls, cohash, removed>>
           ELSE \E r \in {vos_co_destroy_tx(Durable, id, ci[id], f)} :
                    /\ heap' = r.d.heap
                    /\ ci' = r.d.ci
                    /\ removed' = IF r.rc = OK
                                  THEN [removed EXCEPT ![id] = "destroy"]
                                  ELSE removed
                    /\ last' = [Ret("destroy", id, r.rc, NULL, TRUE, FALSE, f)
                                  EXCEPT !.aborted = r.aborted, !.oid = r.oid]
                    /\ UNCHANGED <<hdls, cohash>>

OpenFaults == {"none", "poh", "hdl_alloc", "open_inplace", "insert"}

vos_co_open(id, f) ==
    /\ UNCHANGED <<heap, ci, iter, vp_ref, removed, pc, loc>>
    /\ IF f = "poh"
       THEN /\ last' = Ret("open", id, "DER_INVAL", NULL, FALSE, FALSE, f)
            /\ UNCHANGED <<hdls, cohash>>
       ELSE
       LET l == vos_co_lookup_handle(Cache, id)
       IN  IF l.rc = OK
           THEN /\ hdls[l.co_hdl].ul_ref < MaxRef
                /\ hdls' = l.c.hdls
                /\ cohash' = l.c.cohash
                /\ last' = Ret("open", id, OK, l.co_hdl, FALSE, TRUE, f)
           ELSE IF vos_co_tree_lookup(Durable, id) # OK
           THEN /\ last' = [Ret("open", id, "DER_NONEXIST", NULL, FALSE, FALSE, f)
                              EXCEPT !.tl = 1]
                /\ UNCHANGED <<hdls, cohash>>
           ELSE
           LET co_hdl == AllocHdl(hdls, f = "hdl_alloc")
           IN  IF co_hdl = NULL
               THEN /\ last' = [Ret("open", id, "DER_NOSPACE", NULL, FALSE, FALSE, f)
                                  EXCEPT !.tl = 1]
                    /\ UNCHANGED <<hdls, cohash>>
               ELSE
               LET c1 == [Cache EXCEPT !.hdls[co_hdl] = NewHdl(Durable, id)]
                   ins == IF f = "open_inplace"
                          THEN [rc |-> "DER_NOMEM", coh |-> NULL, c |-> c1]
                          ELSE vos_co_insert_handle(c1, co_hdl, id, f = "insert")
                   c2 == vos_co_open_exit(ins.c, ins.rc, co_hdl)
               IN  /\ hdls' = c2.hdls
                   /\ cohash' = c2.cohash
                   /\ last' = [Ret("open", id, ins.rc, ins.coh, FALSE, FALSE, f)
                                 EXCEPT !.tl = 1]
    /\ held' = HeldAfterOpen(id, last'.rc, last'.coh)

\* vos_hdl2co: the handle a cookie names; none for a null cookie or for the
\* cookie of a handle that has been closed
vos_hdl2co(hd, coh) == IF coh # NULL /\ hd[coh].live THEN coh ELSE NULL

\* Faulty variant: only a null cookie is refused; the reference of a handle
\* that is not open any more is dropped once more.
vos_co_close_nocheck(coh) ==
    /\ UNCHANGED <<heap, ci, iter, vp_ref, removed, pc, loc>>
    /\ IF coh = NULL
       THEN /\ last' = Ret("close", 0, "DER_INVAL", coh, FALSE, FALSE, "none")
            /\ UNCHANGED <<hdls, cohash, held>>
       ELSE IF ~hdls[coh].live
       THEN /\ hdls[coh].ul_ref >= 0
            /\ hdls' = [hdls EXCEPT ![coh].ul_ref = @ - 1]
            /\ last' = Ret("close", 0, OK, coh, FALSE, FALSE, "none")
            /\ UNCHANGED <<cohash, held>>
       ELSE LET c == vos_co_release_handle(Cache, coh)
            IN  /\ hdls' = c.hdls
                /\ cohash' = c.cohash
                /\ held' = HeldAfterClose(hdls[coh].vc_id)
                /\ last' = Ret("close", hdls[coh].vc_id, OK, coh, FALSE, FALSE,
                               "none")

\* Faulty variant: the reference of the closed handle is not released.
vos_co_close_norelease(coh) ==
    /\ UNCHANGED <<heap, ci, iter, vp_ref, removed, pc, loc>>
    /\ LET co_hdl == vos_hdl2co(hdls, coh)
       IN  IF co_hdl = NULL
           THEN /\ last' = Ret("close", 0, "DER_INVAL", coh, FALSE, FALSE, "none")
                /\ UNCHANGED <<hdls, cohash, held>>
           ELSE /\ UNCHANGED <<hdls, cohash>>
                /\ held[hdls[co_hdl].vc_id].n > 0
                /\ held' = HeldAfterClose(hdls[co_hdl].vc_id)
                /\ last' = Ret("close", hdls[co_hdl].vc_id, OK, coh, FALSE,
                               FALSE, "none")

\* vos_co_close: an invalid handle is -DER_INVAL; else the object cache of the
\* container is evicted and the reference is released
vos_co_close(coh) ==
    /\ UNCHANGED <<heap, ci, iter, vp_ref, removed, pc, loc>>
    /\ LET co_hdl == vos_hdl2co(hdls, coh)
       IN  IF co_hdl = NULL
           THEN /\ last' = Ret("close", 0, "DER_INVAL", coh, FALSE, FALSE, "none")
                /\ UNCHANGED <<hdls, cohash, held>>
           ELSE LET c == vos_co_release_handle(Cache, co_hdl)
                IN  /\ hdls' = c.hdls
                    /\ cohash' = c.cohash
                    /\ held' = HeldAfterClose(hdls[co_hdl].vc_id)
                    /\ last' = Ret("close", hdls[co_hdl].vc_id, OK, coh, FALSE,
                                   FALSE, "none")

\* vos_co_query: an invalid handle is -DER_INVAL; else vc_info is copied out of
\* the record the handle points to. Memory that holds no container record
\* any more gives whatever it holds now.
vos_co_query(coh) ==
    /\ UNCHANGED <<heap, ci, hdls, cohash, iter, vp_ref, removed, pc, loc, held>>
    /\ LET co_hdl == vos_hdl2co(hdls, coh)
       IN  IF co_hdl = NULL
           THEN last' = Ret("query", 0, "DER_INVAL", coh, FALSE, FALSE, "none")
           ELSE LET vc_co == hdls[co_hdl].vc_co
                IN  \E v \in IF heap[vc_co].kind = "co"
                              THEN {heap[vc_co].vc_info}
                              ELSE {"zero", "junk"} :
                       last' = [Ret("query", hdls[co_hdl].vc_id, OK, coh, FALSE,
                                    FALSE, "none")
                                EXCEPT !.vc_co = vc_co, !.info = v]

\* ------------------------------------------------------------ the iterator
Keys(d) == {i \in DOMAIN d.ci : d.ci[i] # NULL}

\* dbtree_iter_probe: BTR_PROBE_FIRST, or BTR_PROBE_GE from the anchor
dbtree_iter_probe(d, anchor) ==
    LET S == IF anchor = NULL THEN Keys(d) ELSE {i \in Keys(d) : i >= anchor}
    IN  IF S = {} THEN [rc |-> "DER_NONEXIST", it |-> [st |-> "init", pos |-> 0]]
        ELSE [rc |-> OK, it |-> [st |-> "ready", pos |-> MinOf(S)]]

\* dbtree_iter_next: the next key in order, or the end
dbtree_iter_next(d, it) ==
    IF it.st # "ready" THEN [rc |-> "DER_NONEXIST", it |-> it]
    ELSE LET S == {i \in Keys(d) : i > it.pos}
         IN  IF S = {} THEN [rc |-> "DER_NONEXIST", it |-> [st |-> "end", pos |-> 0]]
             ELSE [rc |-> OK, it |-> [st |-> "ready", pos |-> MinOf(S)]]

\* dbtree_iter_fetch: the key under the cursor (vc_rec_fetch gives the record)
\* and its anchor, the hashed key (vc_hkey_gen: the uuid itself)
dbtree_iter_fetch(d, it) ==
    IF it.st = "ready" /\ d.ci[it.pos] # NULL
    THEN [rc |-> OK, vc_co |-> d.ci[it.pos], anchor |-> it.pos]
    ELSE [rc |-> "DER_NONEXIST", vc_co |-> NULL, anchor |-> NULL]

\* dbtree_iter_delete: deletes the record under the cursor (vc_rec_free) and
\* resets the cursor
dbtree_iter_delete(d, it, f) ==
    IF it.st # "ready" \/ d.ci[it.pos] = NULL
    THEN [rc |-> "DER_NONEXIST", d |-> d, it |-> it, oid |-> 0]
    ELSE LET r == dbtree_delete(d, it.pos, f)
         IN  [rc |-> r.rc, d |-> r.d,
              it |-> IF r.rc = OK THEN [st |-> "init", pos |-> 0] ELSE it,
              oid |-> r.oid]

\* vos_co_iter_delete, TX_BEGIN .. TX_END: the body never aborts; the result
\* of dbtree_iter_delete is returned
vos_co_iter_delete_tx(d, it, f) ==
    LET r == dbtree_iter_delete(d, it, f)
    IN  [rc |-> r.rc, d |-> r.d, it |-> r.it, aborted |-> FALSE, oid |-> r.oid]

PrepFaults == {"none", "type", "poh", "alloc", "prepare"}

vos_co_iter_prep(f) ==
    /\ UNCHANGED <<heap, ci, hdls, cohash, removed, pc, loc, held>>
    /\ IF f = "type" \/ f = "poh"
       THEN /\ last' = Ret("iter_prep", 0, "DER_INVAL", NULL, FALSE, FALSE, f)
            /\ UNCHANGED <<iter, vp_ref>>
       ELSE IF f = "alloc"
       THEN /\ last' = Ret("iter_prep", 0, "DER_NOMEM", NULL, FALSE, FALSE, f)
            /\ UNCHANGED <<iter, vp_ref>>
       ELSE IF f = "prepare"
       THEN \* vos_pool_addref, then vos_co_iter_fini: vos_pool_decref
            /\ last' = Ret("iter_prep", 0, "DER_NOMEM", NULL, FALSE, FALSE, f)
            /\ vp_ref' = (vp_ref + 1) - 1
            /\ UNCHANGED iter
       ELSE /\ iter.st = "none"
            /\ vp_ref' = vp_ref + 1
            /\ iter' = [st |-> "init", pos |-> 0]
            /\ last' = Ret("iter_prep", 0, OK, NULL, FALSE, FALSE, f)

vos_co_iter_fini ==
    /\ iter.st # "none"
    /\ vp_ref' = vp_ref - 1
    /\ iter' = NoIter
    /\ last' = Ret("iter_fini", 0, OK, NULL, FALSE, FALSE, "none")
    /\ UNCHANGED <<heap, ci, hdls, cohash, removed, pc, loc, held>>

\* Faulty variant: the anchor is ignored, the probe is always BTR_PROBE_FIRST.
vos_co_iter_probe_first(anchor) ==
    /\ iter.st # "none"
    /\ LET r == dbtree_iter_probe(Durable, NULL)
       IN  /\ iter' = r.it
           /\ last' = Ret("iter_probe", anchor, r.rc, NULL, FALSE, FALSE, "none")
    /\ UNCHANGED <<heap, ci, hdls, cohash, vp_ref, removed, pc, loc, held>>

vos_co_iter_probe(anchor) ==
    /\ iter.st # "none"
    /\ LET r == dbtree_iter_probe(Durable, anchor)
       IN  /\ iter' = r.it
           /\ last' = Ret("iter_probe", anchor, r.rc, NULL, FALSE, FALSE, "none")
    /\ UNCHANGED <<heap, ci, hdls, cohash, vp_ref, removed, pc, loc, held>>

vos_co_iter_next ==
    /\ iter.st # "none"
    /\ LET r == dbtree_iter_next(Durable, iter)
       IN  /\ iter' = r.it
           /\ last' = Ret("iter_next", 0, r.rc, NULL, FALSE, FALSE, "none")
    /\ UNCHANGED <<heap, ci, hdls, cohash, vp_ref, removed, pc, loc, held>>

\* vos_co_iter_fetch: ie_couuid is the vc_id of the fetched record
vos_co_iter_fetch ==
    /\ iter.st # "none"
    /\ LET r == dbtree_iter_fetch(Durable, iter)
       IN  last' = [Ret("iter_fetch",
                        IF r.rc = OK THEN heap[r.vc_co].vc_id ELSE 0,
                        r.rc, NULL, FALSE, FALSE, "none")
                    EXCEPT !.anchor = r.anchor]
    /\ UNCHANGED <<heap, ci, hdls, cohash, iter, vp_ref, removed, pc, loc, held>>

IterDelFaults == {"none", "btr"}

vos_co_iter_delete(f) ==
    /\ iter.st # "none"
    /\ \E r \in {vos_co_iter_delete_tx(Durable, iter, f)} :
           /\ heap' = r.d.heap
           /\ ci' = r.d.ci
           /\ iter' = r.it
           /\ last' = [Ret("iter_delete", iter.pos, r.rc, NULL, TRUE, FALSE, f)
                         EXCEPT !.aborted = r.aborted, !.oid = r.oid]
           /\ removed' = IF r.rc = OK /\ iter.pos # 0
                         THEN [removed EXCEPT ![iter.pos] = "iter"]
                         ELSE removed
    /\ UNCHANGED <<hdls, cohash, vp_ref, pc, loc, held>>

\* ------------------------------------------------------------------- Spec
\* the handles a caller can pass: none, or one an open has returned (open or
\* closed by now)
Cookies == {NULL} \cup {held[i].coh : i \in DOMAIN held}

Next ==
    \/ \E id \in DOMAIN ci, f \in CreateFaults :
          vos_co_create(id, f)
    \/ \E id \in DOMAIN ci, f \in OpenFaults :
          vos_co_open(id, f)
    \/ \E coh \in Cookies :
          vos_co_close(coh)
    \/ \E coh \in Cookies :
          vos_co_query(coh)
    \/ \E id \in DOMAIN ci, f \in DestroyFaults :
          vos_co_destroy(id, f)
    \/ \E f \in PrepFaults :
          vos_co_iter_prep(f)
    \/ \E anchor \in {NULL} \cup DOMAIN ci : vos_co_iter_probe(anchor)
    \/ vos_co_iter_next
    \/ vos_co_iter_fetch
    \/ \E f \in IterDelFaults : vos_co_iter_delete(f)
    \/ vos_co_iter_fini

Spec == Init /\ [][Next]_vars

\* SpecWide: the same calls on a pool with room for MaxWide containers
WideIds == 1..MaxWide

InitWide ==
    /\ heap = [a \in 1..(2 * MaxWide) |-> NoObj]
    /\ ci = [i \in WideIds |-> NULL]
    /\ hdls = [a \in 1..MaxWide |-> NoHdl]
    /\ cohash = [i \in WideIds |-> NULL]
    /\ iter = NoIter
    /\ vp_ref = 1
    /\ last = NoCall
    /\ removed = [i \in WideIds |-> "no"]
    /\ pc = [t \in Threads |-> "idle"]
    /\ loc = [t \in Threads |-> NoLoc]
    /\ held = [i \in WideIds |-> NoHeld]

SpecWide == InitWide /\ [][Next]_vars

\* SpecIter: the iterator calls on a directory that holds any set of up to
\* MaxKeys containers and is not changed meanwhile
IterIds == 1..MaxKeys

InitIter ==
    /\ \E S \in SUBSET IterIds :
          /\ ci = [i \in IterIds |-> IF i \in S THEN 2 * i - 1 ELSE NULL]
          /\ heap = [a \in 1..(2 * MaxKeys) |->
                       IF (a + 1) \div 2 \in S
                       THEN IF a % 2 = 1 THEN CoObj((a + 1) \div 2, a + 1)
                            ELSE OiObj("live")
                       ELSE NoObj]
    /\ hdls = [a \in 1..1 |-> NoHdl]
    /\ cohash = [i \in IterIds |-> NULL]
    /\ iter = NoIter
    /\ vp_ref = 1
    /\ last = NoCall
    /\ removed = [i \in IterIds |-> "no"]
    /\ pc = [t \in Threads |-> "idle"]
    /\ loc = [t \in Threads |-> NoLoc]
    /\ held = [i \in IterIds |-> NoHeld]

NextIter ==
    \/ \E f \in PrepFaults :
          vos_co_iter_prep(f)
    \/ \E anchor \in {NULL} \cup DOMAIN ci : vos_co_iter_probe(anchor)
    \/ vos_co_iter_next
    \/ vos_co_iter_fetch
    \/ vos_co_iter_fini

SpecIter == InitIter /\ [][NextIter]_vars

\* ------------------------------------------- lifecycle calls, as threads
\* A call of thread t is a sequence of steps, one per access to the handle
\* cache or the durable index; loc[t] holds the call's locals (co_hdl,
\* s_buf.vc_co) while it runs and what it returned once pc[t] is "idle" again.
Call(op, id) == [NoLoc EXCEPT !.op = op, !.id = id]

Done(t, rc, coh) ==
    /\ pc' = [pc EXCEPT ![t] = "idle"]
    /\ loc' = [loc EXCEPT ![t] = [op |-> loc[t].op, id |-> loc[t].id, rc |-> rc,
                                  co_hdl |-> NULL, coh |-> coh, vc_co |-> NULL]]

\* vos_co_create: the existence check
vos_co_create_lookup(t, id) ==
    /\ pc[t] = "idle"
    /\ IF vos_co_tree_lookup(Durable, id) = OK
       THEN /\ loc' = [loc EXCEPT ![t] = [Call("create", id) EXCEPT !.rc = "DER_EXIST"]]
            /\ UNCHANGED pc
       ELSE /\ loc' = [loc EXCEPT ![t] = Call("create", id)]
            /\ pc' = [pc EXCEPT ![t] = "create_tx"]
    /\ UNCHANGED <<heap, ci, hdls, cohash, iter, vp_ref, last, removed, held>>

\* vos_co_create: the transaction
vos_co_create_txn(t) ==
    /\ pc[t] = "create_tx"
    /\ \E r \in {vos_co_create_tx(Durable, loc[t].id, "none")} :
           /\ heap' = r.d.heap
           /\ ci' = r.d.ci
           /\ removed' = IF r.rc = OK /\ ci[loc[t].id] = NULL
                         THEN [removed EXCEPT ![loc[t].id] = "no"]
                         ELSE removed
           /\ Done(t, r.rc, NULL)
    /\ UNCHANGED <<hdls, cohash, iter, vp_ref, last, held>>

\* vos_co_open: the handle-cache lookup
vos_co_open_lookup(t, id) ==
    /\ pc[t] = "idle"
    /\ LET l == vos_co_lookup_handle(Cache, id)
       IN  IF l.rc = OK
           THEN /\ hdls[l.co_hdl].ul_ref < MaxRef
                /\ hdls' = l.c.hdls
                /\ loc' = [loc EXCEPT ![t] = [Call("open", id) EXCEPT !.coh = l.co_hdl]]
                /\ UNCHANGED pc
           ELSE /\ loc' = [loc EXCEPT ![t] = Call("open", id)]
                /\ pc' = [pc EXCEPT ![t] = "open_tree"]
                /\ UNCHANGED hdls
    /\ UNCHANGED <<heap, ci, cohash, iter, vp_ref, last, removed, held>>

\* vos_co_open: the directory lookup and the construction of the handle
vos_co_open_tree(t) ==
    /\ pc[t] = "open_tree"
    /\ IF vos_co_tree_lookup(Durable, loc[t].id) # OK
       THEN /\ Done(t, "DER_NONEXIST", NULL)
            /\ UNCHANGED hdls
       ELSE LET co_hdl == AllocHdl(hdls, FALSE)
            IN  IF co_hdl = NULL
                THEN /\ Done(t, "DER_NOSPACE", NULL)
                     /\ UNCHANGED hdls
                ELSE /\ hdls' = [hdls EXCEPT ![co_hdl] = NewHdl(Durable, loc[t].id)]
                     /\ loc' = [loc EXCEPT ![t].co_hdl = co_hdl]
                     /\ pc' = [pc EXCEPT ![t] = "open_insert"]
    /\ UNCHANGED <<heap, ci, cohash, iter, vp_ref, last, removed, held>>

\* vos_co_open: the insert into the handle cache, and the exit label
vos_co_open_insert(t) ==
    /\ pc[t] = "open_insert"
    /\ LET ins == vos_co_insert_handle(Cache, loc[t].co_hdl, loc[t].id, FALSE)
           c == vos_co_open_exit(ins.c, ins.rc, loc[t].co_hdl)
       IN  /\ hdls' = c.hdls
           /\ cohash' = c.cohash
           /\ Done(t, ins.rc, ins.coh)
    /\ UNCHANGED <<heap, ci, iter, vp_ref, last, removed, held>>

\* vos_co_close of the handle the thread's open returned
vos_co_close_own(t) ==
    /\ pc[t] = "idle"
    /\ loc[t].op = "open" /\ loc[t].rc = OK /\ loc[t].coh # NULL
    /\ LET c == vos_co_release_handle(Cache, loc[t].coh)
       IN  /\ hdls' = c.hdls
           /\ cohash' = c.cohash
    /\ loc' = [loc EXCEPT ![t] = Call("close", loc[t].id)]
    /\ UNCHANGED <<heap, ci, iter, vp_ref, last, removed, pc, held>>

\* vos_co_destroy: the handle-cache lookup
vos_co_destroy_lookup(t, id) ==
    /\ pc[t] = "idle"
    /\ LET l == vos_co_lookup_handle(Cache, id)
       IN  /\ hdls' = l.c.hdls
           /\ loc' = [loc EXCEPT ![t] = [Call("destroy", id) EXCEPT !.co_hdl = l.co_hdl]]
           /\ pc' = [pc EXCEPT ![t] = IF l.rc # "DER_NONEXIST"
                                      THEN "destroy_putref" ELSE "destroy_tree"]
    /\ UNCHANGED <<heap, ci, cohash, iter, vp_ref, last, removed, held>>

\* vos_co_destroy: the Busy return
vos_co_destroy_putref(t) ==
    /\ pc[t] = "destroy_putref"
    /\ LET c == vos_co_destroy_busy(Cache, loc[t].co_hdl)
       IN  /\ hdls' = c.hdls
           /\ cohash' = c.cohash
    /\ Done(t, "DER_BUSY", NULL)
    /\ UNCHANGED <<heap, ci, iter, vp_ref, last, removed, held>>

\* vos_co_destroy: the directory lookup; s_buf.vc_co is the record found
vos_co_destroy_tree(t) ==
    /\ pc[t] = "destroy_tree"
    /\ IF vos_co_tree_lookup(Durable, loc[t].id) # OK
       THEN Done(t, "DER_NONEXIST", NULL)
       ELSE /\ loc' = [loc EXCEPT ![t].vc_co = ci[loc[t].id]]
            /\ pc' = [pc EXCEPT ![t] = "destroy_tx"]
    /\ UNCHANGED <<heap, ci, hdls, cohash, iter, vp_ref, last, removed, held>>

\* vos_co_destroy: the transaction, on the record s_buf.vc_co names.  If that
\* record was freed since the lookup the body reads freed memory: it fails one
\* way or the other and changes nothing.
vos_co_destroy_txn(t) ==
    /\ pc[t] = "destroy_tx"
    /\ IF ci[loc[t].id] = loc[t].vc_co
       THEN \E r \in {vos_co_destroy_tx(Durable, loc[t].id, loc[t].vc_co, "none")} :
                /\ heap' = r.d.heap
                /\ ci' = r.d.ci
                /\ removed' = IF r.rc = OK
                              THEN [removed EXCEPT ![loc[t].id] = "destroy"]
                              ELSE removed
                /\ Done(t, r.rc, NULL)
       ELSE /\ \E rc \in {"DER_IO", "DER_NONEXIST"} : Done(t, rc, NULL)
            /\ UNCHANGED <<heap, ci, removed>>
    /\ UNCHANGED <<hdls, cohash, iter, vp_ref, last, held>>

NextConc ==
    \E t \in Threads :
        \/ \E id \in Ids : vos_co_create_lookup(t, id)
        \/ vos_co_create_txn(t)
        \/ \E id \in Ids : vos_co_open_lookup(t, id)
        \/ vos_co_open_tree(t)
        \/ vos_co_open_insert(t)
        \/ vos_co_close_own(t)
        \/ \E id \in Ids : vos_co_destroy_lookup(t, id)
        \/ vos_co_destroy_putref(t)
        \/ vos_co_destroy_tree(t)
        \/ vos_co_destroy_txn(t)

SpecConc == Init /\ [][NextConc]_vars

\* ----------------------------------------------------------------- claims
\* The handle the cache holds for id, with at least one reference.
HasOpenHandle(id) == cohash[id] # NULL /\ hdls[cohash[id]].ul_ref > 0

\* A key's record is complete: a container record carrying the key, owning an
\* allocated, initialised, not destroyed object index.
Complete(h, id, a) ==
    /\ h[a].kind = "co"
    /\ h[a].vc_id = id
    /\ h[a].vc_obtable # NULL
    /\ h[h[a].vc_obtable].kind = "oi"
    /\ h[h[a].vc_obtable].st = "live"

\* C1: in every reachable state, an identifier with an open handle (reference
\* count > 0) in the handle cache is still a key of the durable directory.
C1_OpenHandleKeepsEntry == \A id \in Ids : HasOpenHandle(id) => ci[id] # NULL

\* C2: destroy on a valid pool while the cache holds a handle for id returns
\* Busy and leaves the directory, the durable memory (record and nested index)
\* and the cache with its reference counts exactly as before.
C2_DestroyBusyRestoresAll ==
    [][(last'.op = "destroy" /\ last'.rc # "DER_INVAL" /\ cohash[last'.id] # NULL)
        => /\ last'.rc = "DER_BUSY"
           /\ ci' = ci /\ heap' = heap
           /\ hdls' = hdls /\ cohash' = cohash]_vars

C2_Witness ==
    /\ last.op = "destroy" /\ last.rc = "DER_BUSY" /\ last.hit
    /\ HasOpenHandle(last.id) /\ ci[last.id] # NULL

\* C3: a destroy that returns an error after its transaction began leaves the
\* durable directory and the durable memory exactly as before the call.
C3_FailedDestroyRollsBack ==
    [][(last'.op = "destroy" /\ last'.tx /\ last'.rc # OK)
        => (ci' = ci /\ heap' = heap)]_vars

\* C4: each key of the durable directory maps to a container record that
\* carries the key and owns a live nested index.
C4_KeysAreComplete ==
    \A id \in Ids : ci[id] # NULL => Complete(heap, id, ci[id])

\* C5: a create whose transaction fails returns an error and afterwards the
\* directory has no entry for id and nothing the call allocated remains.
C5_FailedCreateLeavesNothing ==
    [][(last'.op = "create" /\ last'.tx
           /\ last'.f \in {"co_nomem", "oi_nomem", "oi_create"})
        => /\ last'.rc # OK
           /\ ci'[last'.id] = NULL
           /\ ci' = ci /\ heap' = heap]_vars

C5_Witness ==
    /\ last.op = "create" /\ last.tx /\ last.f = "oi_create"
    /\ last.rc # OK /\ ci[last.id] = NULL /\ FreeAddrs(heap) = Addr

\* C6: create on an identifier already in the directory returns AlreadyExists
\* without beginning a transaction; the entry, its record and its nested index
\* are as before.
C6_DuplicateCreateRejected ==
    [][(last'.op = "create" /\ last'.rc # "DER_INVAL" /\ ci[last'.id] # NULL)
        => /\ last'.rc = "DER_EXIST" /\ ~last'.tx
           /\ ci' = ci /\ heap' = heap]_vars

C6_Witness ==
    /\ last.op = "create" /\ last.rc = "DER_EXIST"
    /\ ci[last.id] # NULL /\ Complete(heap, last.id, ci[last.id])

\* C9: once id was deleted through the iterator, and until it is created
\* again, open(id) on a valid pool fails with NotFound and the iterator
\* fetches no entry for id.
C9_IterDeletedStaysGone ==
    [][/\ (last'.op = "open" /\ last'.rc # "DER_INVAL"
              /\ removed[last'.id] = "iter")
          => last'.rc = "DER_NONEXIST"
       /\ (last'.op = "iter_fetch" /\ last'.rc = OK)
          => removed[last'.id] = "no"]_vars

\* C10: after a successful destroy(id) and until the next successful
\* create(id), open(id) on a valid pool fails with NotFound and leaves the
\* handle cache as it was.
C10_DestroyedStaysGone ==
    [][(last'.op = "open" /\ last'.rc # "DER_INVAL"
           /\ removed[last'.id] = "destroy")
        => /\ last'.rc = "DER_NONEXIST"
           /\ hdls' = hdls /\ cohash' = cohash]_vars

C10_Witness ==
    /\ last.op = "open" /\ last.rc = "DER_NONEXIST"
    /\ removed[last.id] = "destroy" /\ cohash[last.id] = NULL

\* C7: an open(id) whose cache lookup missed and which reaches its cache
\* insert after a concurrent open(id) inserted succeeds, returns the handle
\* the cache already holds, and leaves the cache with that one entry holding
\* one reference more (2 for two racing opens).
C7_RacingOpensShareHandle ==
    [][\A t \in Threads :
         (pc[t] = "open_insert" /\ pc'[t] = "idle" /\ cohash[loc[t].id] # NULL)
         => /\ loc'[t].rc = OK
            /\ loc'[t].coh = cohash[loc[t].id]
            /\ cohash' = cohash
            /\ hdls'[cohash[loc[t].id]].ul_ref
                   = hdls[cohash[loc[t].id]].ul_ref + 1]_vars

\* C8: no reachable state has an open(id) that returned successfully, its
\* handle still in the cache, and a destroy(id) of another thread that
\* returned successfully and deleted the container's record.
C8_NoOpenWithDestroy ==
    \A t \in Threads, u \in Threads :
        ~ /\ t # u
          /\ pc[t] = "idle" /\ loc[t].op = "open" /\ loc[t].rc = OK
          /\ pc[u] = "idle" /\ loc[u].op = "destroy" /\ loc[u].rc = OK
          /\ loc[u].id = loc[t].id
          /\ cohash[loc[t].id] = loc[t].coh
          /\ hdls[loc[t].coh].live
          /\ ci[loc[t].id] = NULL

\* C11: once every handle obtained by open(id) has been closed (the callers
\* hold no reference any more), a destroy(id) of an existing container, on a
\* valid pool and with no storage failure, does not return DER_BUSY: it
\* returns 0 and the uuid has left the index.
C11_DestroyAfterAllClosed ==
    [][(/\ last'.op = "destroy" /\ last'.f = "none"
        /\ ci[last'.id] # NULL
        /\ held[last'.id].n = 0)
       => /\ last'.rc = OK
          /\ ci'[last'.id] = NULL]_vars

C11_Witness ==
    /\ last.op = "destroy" /\ last.f = "none" /\ last.rc = OK
    /\ held[last.id].drained /\ held[last.id].n = 0
    /\ ci[last.id] = NULL

\* C12: an open(id) that follows a successful create(id), on a valid pool and
\* with no allocation failure, returns 0 with a handle bound to the record the
\* index holds for id; a query on a handle so bound returns 0 and the zeroed
\* vc_info of that record.
C12_CreateOpenQuery ==
    [][/\ (/\ last.op = "create" /\ last.rc = OK
            /\ last'.op = "open" /\ last'.id = last.id /\ last'.f = "none")
           => /\ last'.rc = OK
              /\ hdls'[last'.coh].vc_id = last'.id
              /\ hdls'[last'.coh].vc_co = ci'[last'.id]
       /\ (/\ last.op = "open" /\ last.rc = OK
            /\ hdls[last.coh].vc_co = ci[last.id]
            /\ last'.op = "query" /\ last'.coh = last.coh)
           => /\ last'.rc = OK
              /\ last'.vc_co = ci[last.id]
              /\ heap[last'.vc_co].vc_id = last.id
              /\ last'.info = "zero"]_vars

\* C13: a vos_co_iter_delete that returns an error has aborted its
\* transaction, and the durable index and the pool memory are exactly as
\* before the call: the entry under the cursor is still there with its record
\* and its object index.
C13_FailedIterDeleteAborted ==
    [][(last'.op = "iter_delete" /\ last'.tx /\ last'.rc # OK)
       => /\ last'.aborted
          /\ ci' = ci
          /\ heap' = heap]_vars

\* C14: on a directory that is not changed, a probe without anchor puts the
\* cursor on the first entry and a probe with an anchor on the first entry at
\* or after the anchor; after a probe with the anchor a fetch returned for an
\* entry, next puts the cursor on the entry that follows it in the order of
\* enumeration, or reports the end if there is none, never on that entry
\* again; and fetch returns the entry under the cursor with its anchor.
C14_ResumeAfterAnchor ==
    [][/\ (last'.op = "iter_probe" /\ last'.id = NULL)
           => IF Keys(Durable) = {}
              THEN last'.rc = "DER_NONEXIST"
              ELSE last'.rc = OK /\ iter'.st = "ready"
                   /\ iter'.pos = MinOf(Keys(Durable))
       /\ (last'.op = "iter_probe" /\ last'.id # NULL)
           => IF \A k \in Keys(Durable) : k < last'.id
              THEN last'.rc = "DER_NONEXIST"
              ELSE last'.rc = OK /\ iter'.st = "ready"
                   /\ iter'.pos \in Keys(Durable) /\ iter'.pos >= last'.id
                   /\ \A k \in Keys(Durable) : k >= last'.id => iter'.pos <= k
       /\ (/\ last.op = "iter_probe" /\ last.id # NULL /\ ci[last.id] # NULL
            /\ last'.op = "iter_next")
           => IF \A k \in Keys(Durable) : k <= last.id
              THEN last'.rc = "DER_NONEXIST" /\ iter'.st = "end"
              ELSE last'.rc = OK /\ iter'.st = "ready"
                   /\ iter'.pos \in Keys(Durable) /\ iter'.pos > last.id
                   /\ \A k \in Keys(Durable) : k > last.id => iter'.pos <= k
       /\ (last'.op = "iter_fetch")
           => IF iter.st = "ready"
              THEN last'.rc = OK /\ last'.id = iter.pos
                   /\ last'.anchor = iter.pos
              ELSE last'.rc # OK]_vars

\* the cursor was put back on an entry in the middle of the enumeration by a
\* probe with that entry's anchor
C14_Witness ==
    /\ last.op = "iter_probe" /\ last.rc = OK
    /\ last.id # NULL /\ ci[last.id] # NULL
    /\ iter.st = "ready" /\ iter.pos = last.id
    /\ \E k \in Keys(Durable) : k < last.id
    /\ \E k \in Keys(Durable) : k > last.id

\* C15: beyond the reference of the open pool itself, the reference count of
\* the pool is one per live container handle plus one per live iterator; a
\* failed vos_co_iter_prep leaves it as it was, and so does a vos_co_iter_prep
\* followed by vos_co_iter_fini.
C15_PoolRefPerHandleAndIter ==
    /\ [](vp_ref = 1 + Cardinality({h \in DOMAIN hdls : hdls[h].live})
                     + (IF iter.st # "none" THEN 1 ELSE 0))
    /\ [][/\ (last'.op = "iter_prep" /\ last'.rc # OK) => vp_ref' = vp_ref
          /\ (last.op = "iter_prep" /\ last.rc = OK /\ last'.op = "iter_fini")
              => vp_ref' = vp_ref - 1]_vars

C17_OiCreateDestroyOnce ==
    [][\A id \in DOMAIN ci :
         /\ (ci[id] = NULL /\ ci'[id] # NULL) => last'.oic = 1
         /\ (ci[id] # NULL /\ ci'[id] = NULL) => last'.tx /\ last'.oid = 1]_vars

\* C18: a vc_rec_alloc that fails after it allocated the container record has
\* freed, when it returns, everything it allocated: the record and the object
\* index.
C18_FailedAllocFreesAll ==
    [][(/\ last'.op = "create" /\ last'.tx
        /\ last'.f \in {"oi_nomem", "oi_create"})
       => /\ last'.rc # OK
          /\ last'.kept = 0]_vars

\* C19: with sequential callers the handle cache holds at most one handle per
\* uuid, and its reference count is the number of successful opens of the uuid
\* minus the number of successful closes of the handle; an open of a uuid whose
\* handle is cached returns that handle without a lookup in the durable index;
\* an open that fails leaves the handles and their reference counts as they
\* were.
C19_CacheCountsOpens ==
    /\ [](\A id \in DOMAIN cohash :
            /\ Cardinality({h \in DOMAIN hdls :
                              hdls[h].live /\ hdls[h].vc_id = id}) <= 1
            /\ IF cohash[id] = NULL
               THEN held[id].n = 0
               ELSE /\ hdls[cohash[id]].live
                    /\ hdls[cohash[id]].vc_id = id
                    /\ hdls[cohash[id]].ul_ref = held[id].n)
    /\ [][/\ (last'.op = "open" /\ last'.f # "poh" /\ cohash[last'.id] # NULL)
              => /\ last'.rc = OK
                 /\ last'.coh = cohash[last'.id]
                 /\ last'.tl = 0
          /\ (last'.op = "open" /\ last'.rc # OK)
              => /\ hdls' = hdls
                 /\ cohash' = cohash]_vars

\* a second open of the uuid was served from the cache
C19_Witness ==
    /\ last.op = "open" /\ last.rc = OK /\ last.hit
    /\ cohash[last.id] = last.coh
    /\ hdls[last.coh].ul_ref = 2
    /\ held[last.id].n = 2

\* C20: a vos_co_destroy whose handle-cache lookup returns anything but
\* -DER_NONEXIST returns -DER_BUSY, and vos_co_putref_handle is called on that
\* path only with the handle the lookup returned, never without a handle.
C20_BusyPutrefOnlyWithHandle ==
    [][(/\ last'.op = "destroy" /\ last'.f # "poh"
        /\ (cohash[last'.id] # NULL \/ last'.f = "lookup"))
       => /\ last'.rc = "DER_BUSY"
          /\ ~last'.putnull]_vars

====
